---- MODULE Spec2Model ----
(***************************************************************************)
(* TransformCanvas (src/transform_canvas.py): the transform parameters,    *)
(* the composed forward matrix and its cached inverse, the zoom step, the  *)
(* <Configure> handler and the coordinate mapper.                          *)
(*                                                                         *)
(* Python floats are modelled as exact rationals <<numerator, denominator>>*)
(* (denominator > 0, lowest terms).  Angles are counted in quarter turns   *)
(* (Pi == 2), so that cos and sin are exact.                               *)
(***************************************************************************)
EXTENDS Integers, Sequences, FiniteSets, TLC

(***************************************************************************)
(* Exact arithmetic standing for float64.                                  *)
(***************************************************************************)
Abs(n) == IF n < 0 THEN -n ELSE n

RECURSIVE Gcd(_, _)
Gcd(a, b) == IF b = 0 THEN a ELSE Gcd(b, a % b)

Rat(n, d) ==
  LET g == Gcd(Abs(n), Abs(d))
      s == IF d < 0 THEN -1 ELSE 1
  IN <<(s * n) \div g, (s * d) \div g>>

R(n) == <<n, 1>>
Zero == <<0, 1>>
One == <<1, 1>>
\* Python's None, for an Optional[float]
None == <<0, 0>>

RAdd(a, b) ==
  IF a[2] = 1 /\ b[2] = 1 THEN <<a[1] + b[1], 1>>
  ELSE Rat(a[1] * b[2] + b[1] * a[2], a[2] * b[2])
RSub(a, b) ==
  IF a[2] = 1 /\ b[2] = 1 THEN <<a[1] - b[1], 1>>
  ELSE Rat(a[1] * b[2] - b[1] * a[2], a[2] * b[2])
RMul(a, b) ==
  IF a[2] = 1 /\ b[2] = 1 THEN <<a[1] * b[1], 1>>
  ELSE Rat(a[1] * b[1], a[2] * b[2])
RDiv(a, b) == Rat(a[1] * b[2], a[2] * b[1])
RNeg(a) == <<-a[1], a[2]>>
RAbs(a) == <<Abs(a[1]), a[2]>>
RLt(a, b) == a[1] * b[2] < b[1] * a[2]
RLe(a, b) == a[1] * b[2] <= b[1] * a[2]

(***************************************************************************)
(* 3x3 matrices (np.ndarray of shape (3, 3)): a tuple of three rows.       *)
(***************************************************************************)
Eye3 == << <<One, Zero, Zero>>, <<Zero, One, Zero>>, <<Zero, Zero, One>> >>

Dot3(r, B, j) ==
  RAdd(RAdd(RMul(r[1], B[1][j]), RMul(r[2], B[2][j])), RMul(r[3], B[3][j]))

\* A @ B
MatMul(A, B) ==
  << <<Dot3(A[1], B, 1), Dot3(A[1], B, 2), Dot3(A[1], B, 3)>>,
     <<Dot3(A[2], B, 1), Dot3(A[2], B, 2), Dot3(A[2], B, 3)>>,
     <<Dot3(A[3], B, 1), Dot3(A[3], B, 2), Dot3(A[3], B, 3)>> >>

\* m @ np.append(p, 1), all three components
MatVec(m, p) ==
  LET h == <<p[1], p[2], One>>
      row(i) == RAdd(RAdd(RMul(m[i][1], h[1]), RMul(m[i][2], h[2])), RMul(m[i][3], h[3]))
  IN <<row(1), row(2), row(3)>>

Minor(A, i1, i2, j1, j2) ==
  RSub(RMul(A[i1][j1], A[i2][j2]), RMul(A[i1][j2], A[i2][j1]))

Det(A) ==
  RAdd(RSub(RMul(A[1][1], Minor(A, 2, 3, 2, 3)),
            RMul(A[1][2], Minor(A, 2, 3, 1, 3))),
       RMul(A[1][3], Minor(A, 2, 3, 1, 2)))

\* np.linalg.inv of a non-singular matrix (adjugate over determinant)
Adjugate(A) ==
  << <<Minor(A, 2, 3, 2, 3), RNeg(Minor(A, 1, 3, 2, 3)), Minor(A, 1, 2, 2, 3)>>,
     <<RNeg(Minor(A, 2, 3, 1, 3)), Minor(A, 1, 3, 1, 3), RNeg(Minor(A, 1, 2, 1, 3))>>,
     <<Minor(A, 2, 3, 1, 2), RNeg(Minor(A, 1, 3, 1, 2)), Minor(A, 1, 2, 1, 2)>> >>

\* every entry of the 3x3 matrix A divided by d
MatDiv(A, d) == [i \in 1..3 |-> [j \in 1..3 |-> RDiv(A[i][j], d)]]

LinalgInv(A) == MatDiv(Adjugate(A), Det(A))

(***************************************************************************)
(* Angles: one unit is a quarter turn.                                     *)
(***************************************************************************)
Pi == 2

\* np.cos / np.sin of an angle given in quarter turns
Cos(a) == LET k == a % (2 * Pi) IN IF k = 0 THEN One ELSE IF k = 2 THEN R(-1) ELSE Zero
Sin(a) == LET k == a % (2 * Pi) IN IF k = 1 THEN One ELSE IF k = 3 THEN R(-1) ELSE Zero

(***************************************************************************)
(* tk tokens                                                               *)
(***************************************************************************)
Directions == {"ne", "se", "sw", "nw"}
Origins == {"n", "ne", "e", "se", "s", "sw", "w", "nw", "center"}


(***************************************************************************)
(* The canvas object.  A "machine" m threads the object (m.self) through   *)
(* the statements of one call together with what the call did: the         *)
(* exception it raised, the object after each recomputation of the matrix, *)
(* the object the draw callback saw each time it ran, and the value it     *)
(* returned.                                                               *)
(***************************************************************************)
Raise(m, e) == [m EXCEPT !.raised = e]

\* observation: the matrix has been recomputed, with the object as it is now
Recomputed(m) == [m EXCEPT !.recomputes = Append(@, m.self)]

\* self._cb_draw(): the user's callback observes the object as it is now
CbDraw(m) == [m EXCEPT !.draw_log = Append(@, m.self)]

GetOriginVector(self, origin) ==
  LET w == self.width
      h == self.height
  IN CASE origin = "n" -> <<R(w \div 2), R(0)>>
       [] origin = "ne" -> <<R(w), R(0)>>
       [] origin = "e" -> <<R(w), R(h \div 2)>>
       [] origin = "se" -> <<R(w), R(h)>>
       [] origin = "s" -> <<R(w \div 2), R(h)>>
       [] origin = "sw" -> <<R(0), R(h)>>
       [] origin = "w" -> <<R(0), R(h \div 2)>>
       [] origin = "nw" -> <<R(0), R(0)>>
       [] origin = "center" -> <<R(w \div 2), R(h \div 2)>>

GetDirectionVector(direction) ==
  CASE direction = "ne" -> <<R(1), R(-1)>>
    [] direction = "se" -> <<R(1), R(1)>>
    [] direction = "sw" -> <<R(-1), R(1)>>
    [] direction = "nw" -> <<R(-1), R(-1)>>

CalcScaleRatioEffective(self) ==
  IF self.scale_ratio # None /\ self.scale_ratio # Zero
  THEN RMul(One, RDiv(self.scale_ratio, Rat(self.width, self.height)))
  ELSE One

VScale(self) ==
  LET k == RMul(RMul(RMul(One, self.scale_base), CalcScaleRatioEffective(self)),
                self.zoom_value)
      d == GetDirectionVector(self.direction)
  IN <<RMul(k, d[1]), RMul(k, d[2])>>

VTranslate(self) ==
  LET o == GetOriginVector(self, self.origin)
  IN <<RAdd(o[1], self.offset[1]), RAdd(o[2], self.offset[2])>>

MScale(self) ==
  LET v == VScale(self)
  IN << <<v[1], Zero, Zero>>, <<Zero, v[2], Zero>>, <<Zero, Zero, One>> >>

MRotate(self) ==
  << <<Cos(-self.rotation), RNeg(Sin(-self.rotation)), Zero>>,
     <<Sin(-self.rotation), Cos(-self.rotation), Zero>>,
     <<Zero, Zero, One>> >>

MTranslate(self) ==
  LET v == VTranslate(self)
  IN << <<One, Zero, v[1]>>, <<Zero, One, v[2]>>, <<Zero, Zero, One>> >>

\* mutant: the forward matrix is recomputed, the cached inverse is not
UpdateForwardOnly(m) ==
  Recomputed([m EXCEPT
    !.self.transformation_matrix =
      MatMul(MatMul(MTranslate(m.self), MRotate(m.self)), MScale(m.self)),
    !.self.transformation_matrix_inv = IF @ = <<>> THEN Eye3 ELSE @])

\* mutant: the inverse is taken of the matrix of before the recomputation
UpdateInverseFirst(m) ==
  Recomputed([m EXCEPT
    !.self.transformation_matrix =
      MatMul(MatMul(MTranslate(m.self), MRotate(m.self)), MScale(m.self)),
    !.self.transformation_matrix_inv =
      IF m.self.transformation_matrix = <<>> THEN Eye3
      ELSE LinalgInv(m.self.transformation_matrix)])

\* np.linalg.inv raises LinAlgError on a singular matrix, after the forward
\* matrix has been stored.
\* self._transformation_matrix_inv = np.linalg.inv(self._transformation_matrix)
InvertStored(m) ==
  IF Det(m.self.transformation_matrix) = Zero THEN Raise(m, "LinAlgError")
  ELSE [m EXCEPT !.self.transformation_matrix_inv = LinalgInv(m.self.transformation_matrix)]

UpdateTransformationMatrix(m) ==
  Recomputed(InvertStored([m EXCEPT !.self.transformation_matrix =
    MatMul(MatMul(MTranslate(m.self), MRotate(m.self)), MScale(m.self))]))

UpdateCanvasDimensions(m) ==
  [m EXCEPT !.self.width = m.self.winfo_width, !.self.height = m.self.winfo_height]

\* the end of update(): draw, unless an exception is on its way out
UpdateDraw(m) ==
  IF m.raised # "none" THEN m
  ELSE IF m.self.cb_draw /\ ~m.self.omit_draw THEN CbDraw(m) ELSE m

\* mutant: while omit_draw is set the recomputation is put off as well
UpdateDeferred(m, update_transformation_matrix) ==
  IF ~m.self.is_init THEN m
  ELSE IF update_transformation_matrix /\ ~m.self.omit_draw
  THEN UpdateDraw(UpdateTransformationMatrix(UpdateCanvasDimensions(m)))
  ELSE UpdateDraw(UpdateCanvasDimensions(m))

Update(m, update_transformation_matrix) ==
  IF ~m.self.is_init THEN m
  ELSE IF update_transformation_matrix
  THEN UpdateDraw(UpdateTransformationMatrix(UpdateCanvasDimensions(m)))
  ELSE UpdateDraw(UpdateCanvasDimensions(m))

(***************************************************************************)
(* Property setters                                                        *)
(***************************************************************************)
\* mutant: negative values are refused as well
SetScaleBasePositive(m, value) ==
  IF RLe(value, Zero) THEN Raise(m, "ValueError")
  ELSE Update([m EXCEPT !.self.scale_base = value], TRUE)

SetScaleBase(m, value) ==
  IF value = Zero THEN Raise(m, "ValueError")
  ELSE Update([m EXCEPT !.self.scale_base = value], TRUE)

SetScaleRatio(m, value) ==
  IF value # None /\ RLe(value, Zero) THEN Raise(m, "ValueError")
  ELSE Update([m EXCEPT !.self.scale_ratio = value], TRUE)

\* mutant: the value is stored before it is validated
SetZoomFactorAssignFirst(m, value) ==
  LET m1 == [m EXCEPT !.self.zoom_factor = value]
  IN IF RLe(value, Zero) THEN Raise(m1, "ValueError") ELSE Update(m1, TRUE)

SetZoomFactor(m, value) ==
  IF RLe(value, Zero) THEN Raise(m, "ValueError")
  ELSE Update([m EXCEPT !.self.zoom_factor = value], TRUE)

\* mutant: no validation
SetZoomUnchecked(m, value) == Update([m EXCEPT !.self.zoom_value = value], TRUE)

SetZoom(m, value) ==
  IF value = Zero THEN Raise(m, "ValueError")
  ELSE Update([m EXCEPT !.self.zoom_value = value], TRUE)

SetDirection(m, value) ==
  IF value \notin Directions THEN Raise(m, "ValueError")
  ELSE Update([m EXCEPT !.self.direction = value], TRUE)

SetOrigin(m, value) ==
  IF value \notin Origins THEN Raise(m, "ValueError")
  ELSE Update([m EXCEPT !.self.origin = value], TRUE)

\* a component given as None keeps its current value
SetOffset(m, value) ==
  LET x == IF value[1] # None THEN value[1] ELSE m.self.offset[1]
      y == IF value[2] # None THEN value[2] ELSE m.self.offset[2]
  IN Update([m EXCEPT !.self.offset = <<x, y>>], TRUE)

\* mutant: the half turn is folded to the negative side
SetRotationHalfOpen(m, value) ==
  LET rotation == (value + 2 * Pi) % (2 * Pi)
      normalized == IF rotation < Pi THEN rotation ELSE -2 * Pi + rotation
  IN Update([m EXCEPT !.self.rotation = normalized], TRUE)

SetRotation(m, value) ==
  LET rotation == (value + 2 * Pi) % (2 * Pi)
      normalized == IF rotation <= Pi THEN rotation ELSE -2 * Pi + rotation
  IN Update([m EXCEPT !.self.rotation = normalized], TRUE)

\* value: [ndarray |-> isinstance(value, np.ndarray), a |-> the rows]
IsShape33(a) == Len(a) = 3 /\ \A i \in 1..3 : Len(a[i]) = 3

\* mutant: the translation column of the assigned matrix becomes the offset
SetTransformationMatrixDecomposed(m, value) ==
  IF ~(value.ndarray /\ IsShape33(value.a)) THEN Raise(m, "ValueError")
  ELSE Update([m EXCEPT !.self.transformation_matrix = value.a,
                        !.self.offset = <<value.a[1][3], value.a[2][3]>>], FALSE)

SetTransformationMatrix(m, value) ==
  IF ~(value.ndarray /\ IsShape33(value.a)) THEN Raise(m, "ValueError")
  ELSE Update([m EXCEPT !.self.transformation_matrix = value.a], FALSE)

SetCbDraw(m, value) == [m EXCEPT !.self.cb_draw = value]

SetOmitDraw(m, value) == [m EXCEPT !.self.omit_draw = value]

(***************************************************************************)
(* Zoom step, <Configure> handler, coordinate mapper                       *)
(***************************************************************************)
\* mutant: a zoom factor below 1 is inverted, the direction is kept
ZoomDirKept(self, zoom_dir) == zoom_dir

\* zoom_dir: "IN" or "OUT"; a zoom factor below 1 is inverted and swaps the
\* direction
ZoomDir(self, zoom_dir) ==
  IF RLt(self.zoom_factor, One) THEN (IF zoom_dir = "OUT" THEN "IN" ELSE "OUT")
  ELSE zoom_dir

ZoomFactor(self) ==
  IF RLt(self.zoom_factor, One) THEN RDiv(One, self.zoom_factor) ELSE self.zoom_factor

ZoomFactorUpdate(self, zoom_dir) ==
  IF ZoomDir(self, zoom_dir) = "IN" THEN ZoomFactor(self)
  ELSE RDiv(One, ZoomFactor(self))

\* ptr: self.pointer, the cursor in widget pixels; outside the widget the
\* centre is taken
ZoomPointer(self, ptr) ==
  IF ~(0 <= ptr[1] /\ ptr[1] < self.width) \/ ~(0 <= ptr[2] /\ ptr[2] < self.height)
  THEN <<Rat(self.width, 2), Rat(self.height, 2)>>
  ELSE <<R(ptr[1]), R(ptr[2])>>

\* mutant: the offset moves the same way for both zoom directions
ZoomDeltaUnsigned(pointer, v_translate, zoom_factor_update, dir) ==
  RMul(RSub(pointer, v_translate), RAbs(RSub(zoom_factor_update, One)))

ZoomDelta(pointer, v_translate, zoom_factor_update, dir) ==
  RMul(RMul(RSub(pointer, v_translate), RAbs(RSub(zoom_factor_update, One))),
       IF dir = "IN" THEN R(-1) ELSE One)

\* the offset the zoom step writes, componentwise
ZoomShift(offset, pointer, v_translate, zoom_factor_update, dir) ==
  <<RAdd(offset[1], ZoomDelta(pointer[1], v_translate[1], zoom_factor_update, dir)),
    RAdd(offset[2], ZoomDelta(pointer[2], v_translate[2], zoom_factor_update, dir))>>

ZoomOffset(self, zoom_dir, ptr) ==
  ZoomShift(self.offset, ZoomPointer(self, ptr), VTranslate(self),
            ZoomFactorUpdate(self, zoom_dir), ZoomDir(self, zoom_dir))

\* mutant: zoom and offset are written to the fields, then one update()
ZoomOneUpdate(m, zoom_dir, ptr) ==
  Update([m EXCEPT !.self.zoom_value = RMul(@, ZoomFactorUpdate(m.self, zoom_dir)),
                   !.self.offset = ZoomOffset(m.self, zoom_dir, ptr)],
         TRUE)

\* self._omit_draw = False; self.update()
ZoomFinish(m) ==
  IF m.raised # "none" THEN m
  ELSE Update([m EXCEPT !.self.omit_draw = FALSE], TRUE)

\* self.offset = ..., with the zoom already written
ZoomMove(m, zoom_dir, ptr) ==
  IF m.raised # "none" THEN m
  ELSE ZoomFinish(SetOffset(m, ZoomOffset(m.self, zoom_dir, ptr)))

\* mutant: the zoom step does not set omit_draw while it writes
ZoomUnsuppressed(m, zoom_dir, ptr) ==
  ZoomMove(SetZoom(m, RMul(m.self.zoom_value, ZoomFactorUpdate(m.self, zoom_dir))),
           zoom_dir, ptr)

Zoom(m, zoom_dir, ptr) ==
  ZoomMove(SetZoom(SetOmitDraw(m, TRUE),
                   RMul(m.self.zoom_value, ZoomFactorUpdate(m.self, zoom_dir))),
           zoom_dir, ptr)

ZoomIn(m, ptr) == Zoom(m, "IN", ptr)

ZoomOut(m, ptr) == Zoom(m, "OUT", ptr)

\* the host has given the widget the size <<w, h>> and delivers <Configure>
CbConfigure(m, size) ==
  LET m1 == [m EXCEPT !.self.winfo_width = size[1], !.self.winfo_height = size[2]]
  IN Update(UpdateCanvasDimensions(m1), TRUE)

TransformPointInner(self, p, inv) ==
  LET q == IF ~inv THEN MatVec(self.transformation_matrix_inv, p)
           ELSE MatVec(self.transformation_matrix, p)
  IN <<q[1], q[2]>>

TransformPoint(m, x, y, inv) ==
  [m EXCEPT !.ret = TransformPointInner(m.self, <<x, y>>, inv)]

\* matrix = <<>> stands for matrix=None
RECURSIVE TransformPairs(_, _)
TransformPairs(mat, coords) ==
  IF Len(coords) < 2 THEN <<>>
  ELSE LET q == MatVec(mat, <<coords[1], coords[2]>>)
       IN <<q[1], q[2]>> \o TransformPairs(mat, SubSeq(coords, 3, Len(coords)))

\* mutant: the direction of _transform_point
TransformCoordsSwapped(m, coords, inv, matrix) ==
  IF Len(coords) % 2 # 0 THEN Raise(m, "ValueError")
  ELSE LET mat == IF matrix # <<>> THEN matrix
                  ELSE IF ~inv THEN m.self.transformation_matrix_inv
                  ELSE m.self.transformation_matrix
       IN [m EXCEPT !.ret = TransformPairs(mat, coords)]

\* mutant: the length is validated only when no matrix is supplied
TransformCoordsLaxMatrix(m, coords, inv, matrix) ==
  IF matrix = <<>> /\ Len(coords) % 2 # 0 THEN Raise(m, "ValueError")
  ELSE [m EXCEPT !.ret = TransformPairs(IF matrix # <<>> THEN matrix
                                         ELSE IF ~inv THEN m.self.transformation_matrix
                                         ELSE m.self.transformation_matrix_inv,
                                         coords)]

TransformCoords(m, coords, inv, matrix) ==
  IF Len(coords) % 2 # 0 THEN Raise(m, "ValueError")
  ELSE LET mat == IF matrix # <<>> THEN matrix
                  ELSE IF ~inv THEN m.self.transformation_matrix
                  ELSE m.self.transformation_matrix_inv
       IN [m EXCEPT !.ret = TransformPairs(mat, coords)]

\* The demo's matrix entry field: fetch the matrix, overwrite one cell of that
\* very array, assign it back.
CbEntTransMatrixReturn(m, row, column, value) ==
  LET m1 == [m EXCEPT !.self.transformation_matrix[row][column] = value]
  IN SetTransformationMatrix(m1, [ndarray |-> TRUE, a |-> m1.self.transformation_matrix])

(***************************************************************************)
(* Event bindings of the widget.  bindings holds, for <Motion> and          *)
(* <Configure>, the widget's binding script as the sequence of the funcids  *)
(* in it; a funcid is the number of the Tcl command, 0 stands for None.     *)
(* Bindings of class tags and of the tag all are tk's and are not written   *)
(* here.                                                                   *)
(***************************************************************************)
RECURSIVE RemoveFuncid(_, _)
\* [cb for cb in func_callbacks if cb[6:6 + len(funcid)] != funcid]
RemoveFuncid(callbacks, funcid) ==
  IF callbacks = <<>> THEN <<>>
  ELSE IF Head(callbacks) = funcid THEN RemoveFuncid(Tail(callbacks), funcid)
  ELSE <<Head(callbacks)>> \o RemoveFuncid(Tail(callbacks), funcid)

\* tk.Misc._bind on the widget: a new command, appended to the script with
\* add, replacing it without
TkBind(self, sequence, add) ==
  [self EXCEPT !.n_commands = @ + 1,
               !.bindings[sequence] = IF add THEN Append(@, self.n_commands + 1)
                                      ELSE <<self.n_commands + 1>>]

\* tk.Misc._bind for a class tag or the tag all: a new command
TkBindTag(self) == [self EXCEPT !.n_commands = @ + 1]

RECURSIVE RebindPrivateCbs(_)
RECURSIVE Bind(_, _, _)
RECURSIVE Unbind(_, _, _)
RECURSIVE RebindMotion(_)
RECURSIVE RebindConfigure(_)

\* bind() of the widget, which tk routes through _bind
Bind(m, sequence, add) ==
  [RebindPrivateCbs([m EXCEPT !.self = TkBind(m.self, sequence, add)])
     EXCEPT !.ret = m.self.n_commands + 1]

\* without a funcid the script is emptied and the method returns
Unbind(m, sequence, funcid) ==
  IF funcid = 0 THEN [m EXCEPT !.self.bindings[sequence] = <<>>, !.ret = <<>>]
  ELSE [RebindPrivateCbs([m EXCEPT !.self.bindings[sequence] = RemoveFuncid(@, funcid)])
          EXCEPT !.ret = <<>>]

SetFuncidMotion(m) == [m EXCEPT !.self.funcid_motion = m.ret]

SetFuncidConfigure(m) == [m EXCEPT !.self.funcid_configure = m.ret]

RebindMotion(m) ==
  SetFuncidMotion(Bind(Unbind(m, "Motion", m.self.funcid_motion), "Motion", TRUE))

RebindConfigure(m) ==
  SetFuncidConfigure(Bind(Unbind(m, "Configure", m.self.funcid_configure), "Configure", TRUE))

RebindFinish(m) == [m EXCEPT !.self.rebinding_private_cbs = FALSE]

RebindPrivateCbs(m) ==
  IF m.self.rebinding_private_cbs THEN m
  ELSE RebindFinish(RebindConfigure(RebindMotion(
         [m EXCEPT !.self.rebinding_private_cbs = TRUE])))

\* bind_class: tk's bind_class goes through _bind, then the rebinding once more
BindClass(m) ==
  [RebindPrivateCbs(RebindPrivateCbs([m EXCEPT !.self = TkBindTag(m.self)]))
     EXCEPT !.ret = m.self.n_commands + 1]

UnbindAll(m) == [RebindPrivateCbs(m) EXCEPT !.ret = <<>>]

UnbindClass(m) == [RebindPrivateCbs(m) EXCEPT !.ret = <<>>]

\* the private handler of the sequence is in the widget's binding script
PrivateBound(self, sequence) ==
  \E i \in 1..Len(self.bindings[sequence]) :
    self.bindings[sequence][i] =
      (IF sequence = "Motion" THEN self.funcid_motion ELSE self.funcid_configure)

\* tk resizes the widget and delivers <Configure> to the handlers bound
OnConfigure(m, size) ==
  IF PrivateBound(m.self, "Configure") THEN CbConfigure(m, size)
  ELSE [m EXCEPT !.self.winfo_width = size[1], !.self.winfo_height = size[2]]

\* _cb_motion: the scaled position that <<MotionScaled>> is generated with
CbMotion(m, event) == TransformPoint(m, R(event[1]), R(event[2]), FALSE)

\* tk delivers <Motion> to the handlers bound
OnMotion(m, event) == IF PrivateBound(m.self, "Motion") THEN CbMotion(m, event) ELSE m

\* mutant: every pan step is a tenth of the width
DoMoveByWidth(m, direction) ==
  CASE direction = "LEFT" ->
         SetOffset(m, <<RSub(m.self.offset[1], Rat(m.self.width, 10)), m.self.offset[2]>>)
    [] direction = "RIGHT" ->
         SetOffset(m, <<RAdd(m.self.offset[1], Rat(m.self.width, 10)), m.self.offset[2]>>)
    [] direction = "UP" ->
         SetOffset(m, <<m.self.offset[1], RSub(m.self.offset[2], Rat(m.self.width, 10))>>)
    [] direction = "DOWN" ->
         SetOffset(m, <<m.self.offset[1], RAdd(m.self.offset[2], Rat(m.self.width, 10))>>)
    [] OTHER -> Raise(m, "Exception")

\* The demo's pan step: the offset read from the canvas, moved by a tenth of the
\* width or height, assigned back.
DoMove(m, direction) ==
  CASE direction = "LEFT" ->
         SetOffset(m, <<RSub(m.self.offset[1], Rat(m.self.width, 10)), m.self.offset[2]>>)
    [] direction = "RIGHT" ->
         SetOffset(m, <<RAdd(m.self.offset[1], Rat(m.self.width, 10)), m.self.offset[2]>>)
    [] direction = "UP" ->
         SetOffset(m, <<m.self.offset[1], RSub(m.self.offset[2], Rat(m.self.height, 10))>>)
    [] direction = "DOWN" ->
         SetOffset(m, <<m.self.offset[1], RAdd(m.self.offset[2], Rat(m.self.height, 10))>>)
    [] OTHER -> Raise(m, "Exception")

(***************************************************************************)
(* Matrix: the builder of local transformation matrices                    *)
(***************************************************************************)
\* Matrix()
MatrixNew == Eye3

\* Matrix.translate(x, y): m @ self
MatrixTranslate(self, x, y) ==
  MatMul(<< <<One, Zero, x>>, <<Zero, One, y>>, <<Zero, Zero, One>> >>, self)

\* Matrix.scale(x, y), without origin: m @ self
MatrixScale(self, x, y) ==
  MatMul(<< <<x, Zero, Zero>>, <<Zero, y, Zero>>, <<Zero, Zero, One>> >>, self)

\* m = Matrix().translate(*origin) @ m @ Matrix().translate(*(-origin)); origin
\* <<>> stands for origin=None
MatrixAbout(m, origin) ==
  IF origin = <<>> THEN m
  ELSE MatMul(MatMul(MatrixTranslate(MatrixNew, origin[1], origin[2]), m),
              MatrixTranslate(MatrixNew, RNeg(origin[1]), RNeg(origin[2])))

\* Matrix.scale(x, y, origin): m @ self
MatrixScaleAbout(self, x, y, origin) ==
  MatMul(MatrixAbout(<< <<x, Zero, Zero>>, <<Zero, y, Zero>>, <<Zero, Zero, One>> >>, origin),
         self)

\* Matrix.rotate(angle, origin), angle in quarter turns: m @ self
MatrixRotate(self, angle, origin) ==
  MatMul(MatrixAbout(<< <<Cos(angle), RNeg(Sin(angle)), Zero>>,
                        <<Sin(angle), Cos(angle), Zero>>,
                        <<Zero, Zero, One>> >>, origin),
         self)

\* np.tan(d / 180. * np.pi) of a multiple d of 45 degrees that has a tangent
Tan(d) == IF d % 180 = 0 THEN Zero ELSE IF d % 180 = 45 THEN One ELSE R(-1)

\* Matrix.skew(angle_x, angle_y), angles in degrees: self @ m
MatrixSkew(self, angle_x, angle_y) ==
  MatMul(self, << <<One, Tan(angle_x), Zero>>, <<Tan(angle_y), One, Zero>>,
                  <<Zero, Zero, One>> >>)

(***************************************************************************)
(* create_arc and create_oval.  Angles are rationals; in degrees as the    *)
(* caller gives them, then in quarter turns (x / 180 * Pi).  A float       *)
(* remainder or quotient that is exact in the rationals is as computed     *)
(* here; where the exact result falls on a multiple of the step, IEEE      *)
(* arithmetic produces the multiple, or a value just above or just below   *)
(* it, depending on the operands: fp names which (see Roundings).          *)
(***************************************************************************)
\* math.floor of a rational
RFloor(a) == a[1] \div a[2]

\* a % b for floats, b > 0
RMod(a, b) == RSub(a, RMul(b, R(RFloor(RDiv(a, b)))))

GetPosModuloAngle(angle, deg, keep_full_angle) ==
  IF keep_full_angle /\ RMod(angle, IF deg THEN R(360) ELSE R(2 * Pi)) = Zero
  THEN IF deg THEN R(360) ELSE R(2 * Pi)
  ELSE RMod(angle, IF deg THEN R(360) ELSE R(2 * Pi))

\* kwargs: [start, extent, style], None and "" for a keyword that is not given
ArcStart(kwargs) ==
  RMul(RDiv(GetPosModuloAngle(IF kwargs.start = None THEN R(0) ELSE kwargs.start,
                              TRUE, FALSE), R(180)), R(Pi))

ArcExtent(kwargs) ==
  RMul(RDiv(GetPosModuloAngle(IF kwargs.extent = None THEN R(90) ELSE kwargs.extent,
                              TRUE, TRUE), R(180)), R(Pi))

ArcStyle(kwargs, extent) ==
  IF extent = R(2 * Pi) THEN "chord"
  ELSE IF kwargs.style = "" THEN "pieslice" ELSE kwargs.style

\* step_size = 2 * math.pi / n_segments
ArcStepSize(n_segments) == RDiv(R(2 * Pi), R(n_segments))

\* n_segments = int(n_segments / (2 * math.pi) * extent)
ArcSegments(n_segments, extent, fp) ==
  IF RDiv(RMul(R(n_segments), extent), R(2 * Pi))[2] = 1 /\ fp.count = "short"
  THEN RDiv(RMul(R(n_segments), extent), R(2 * Pi))[1] - 1
  ELSE RFloor(RDiv(RMul(R(n_segments), extent), R(2 * Pi)))

\* begin = (step_size - start % step_size) % step_size: whether it is > 0, and
\* its value up to rounding
ArcBegin(start, step_size, fp) ==
  IF RMod(start, step_size) # Zero
  THEN [positive |-> TRUE, value |-> RSub(step_size, RMod(start, step_size))]
  ELSE IF start = Zero \/ fp.start_rem = "zero" THEN [positive |-> FALSE, value |-> Zero]
  ELSE IF fp.start_rem = "above" THEN [positive |-> TRUE, value |-> step_size]
  ELSE [positive |-> TRUE, value |-> Zero]

\* end = (start + extent) % step_size: whether it is > 0
ArcEndPositive(start, extent, step_size, fp) ==
  RMod(RAdd(start, extent), step_size) # Zero \/ fp.end_rem # "zero"

\* the list angles
ArcAnglesOf(start, extent, step_size, n, begin, end_positive) ==
  (IF begin.positive THEN <<start>> ELSE <<>>)
    \o [i \in 1 .. n |-> RAdd(RAdd(start, begin.value), RMul(R(i - 1), step_size))]
    \o (IF end_positive THEN <<RAdd(start, extent)>> ELSE <<>>)

ArcAngles(start, extent, n_segments, fp) ==
  ArcAnglesOf(start, extent, ArcStepSize(n_segments),
              ArcSegments(n_segments, extent, fp),
              ArcBegin(start, ArcStepSize(n_segments), fp),
              ArcEndPositive(start, extent, ArcStepSize(n_segments), fp))

\* Matrix().scale(x=r1, y=r2).translate(x=r1+x1, y=r2+y1); box = <<x1, y1, x2, y2>>
ArcBoxMatrix(box) ==
  MatrixTranslate(MatrixScale(MatrixNew, RDiv(RSub(box[3], box[1]), R(2)),
                              RDiv(RSub(box[4], box[2]), R(2))),
                  RAdd(RDiv(RSub(box[3], box[1]), R(2)), box[1]),
                  RAdd(RDiv(RSub(box[4], box[2]), R(2)), box[2]))

\* mutant: the points are not taken from the unit circle to the bounding box
ArcTransformUnboxed(self, box, transformation_matrix, coords) ==
  TransformPairs(self.transformation_matrix,
    IF transformation_matrix # <<>> THEN TransformPairs(transformation_matrix, coords)
    ELSE coords)

\* the three transform_coords calls, applied to the point list coords
ArcTransform(self, box, transformation_matrix, coords) ==
  TransformPairs(self.transformation_matrix,
    IF transformation_matrix # <<>>
    THEN TransformPairs(transformation_matrix, TransformPairs(ArcBoxMatrix(box), coords))
    ELSE TransformPairs(ArcBoxMatrix(box), coords))

\* The item handed to tk.  Of a tessellated arc: the perimeter points in the
\* order of emission, each named by its angle a (the point is the image of
\* (cos a, sin a) under frame, the matrices applied in turn), then the points
\* of tail.
ArcItem(self, box, transformation_matrix, angles, style) ==
  [type |-> IF style = "arc" THEN "line" ELSE "polygon",
   angles |-> angles,
   tail |-> IF style = "pieslice"
            THEN ArcTransform(self, box, transformation_matrix, <<Zero, Zero>>)
            ELSE <<>>,
   frame |-> <<ArcBoxMatrix(box), transformation_matrix, self.transformation_matrix>>,
   coords |-> <<>>,
   kwargs |-> [no_trans |-> TRUE, smooth |-> TRUE]]

\* tk's own arc, which _create scales and moves (rotation is 0 here)
NativeArcItem(self, box, kwargs) ==
  [type |-> "arc", angles |-> <<>>, tail |-> <<>>, frame |-> <<>>,
   coords |-> <<RAdd(RMul(box[1], VScale(self)[1]), VTranslate(self)[1]),
                RAdd(RMul(box[2], VScale(self)[2]), VTranslate(self)[2]),
                RAdd(RMul(box[3], VScale(self)[1]), VTranslate(self)[1]),
                RAdd(RMul(box[4], VScale(self)[2]), VTranslate(self)[2])>>,
   kwargs |-> kwargs]

CreateArc(m, box, n_segments, transformation_matrix, kwargs, fp) ==
  IF transformation_matrix # <<>> /\ ~IsShape33(transformation_matrix)
  THEN Raise(m, "ValueError")
  ELSE IF m.self.rotation # 0 \/ transformation_matrix # <<>>
  THEN [m EXCEPT !.ret =
          ArcItem(m.self, box, transformation_matrix,
                  ArcAngles(ArcStart(kwargs), ArcExtent(kwargs), n_segments, fp),
                  ArcStyle(kwargs, ArcExtent(kwargs)))]
  ELSE [m EXCEPT !.ret = NativeArcItem(m.self, box, kwargs)]

\* start, extent and style of the caller are overwritten
CreateOval(m, box, n_segments, transformation_matrix, kwargs, fp) ==
  CreateArc(m, box, n_segments, transformation_matrix,
            [start |-> R(0), extent |-> R(360), style |-> "chord"], fp)

(***************************************************************************)
(* Items other than arcs.  An item is its type, its device coordinates and *)
(* the options tk was given.                                               *)
(***************************************************************************)
\* tk's scale(x, 0, 0, sx, sy) followed by move(x, tx, ty) on an item's coordinates
ScaleAndMove(self, coords) ==
  [i \in 1..Len(coords) |->
     IF i % 2 = 1 THEN RAdd(RMul(coords[i], VScale(self)[1]), VTranslate(self)[1])
     ELSE RAdd(RMul(coords[i], VScale(self)[2]), VTranslate(self)[2])]

\* TransformCanvas._create: kwargs.pop("no_trans", False), tk's _create, then
\* scale and move unless disabled or rotated; tk rejects an odd coordinate list
TkCreate(m, item_type, args, kwargs) ==
  IF Len(args) % 2 # 0 THEN Raise(m, "TclError")
  ELSE [m EXCEPT !.ret =
          [type |-> item_type,
           coords |-> IF ~("no_trans" \in DOMAIN kwargs /\ kwargs["no_trans"])
                         /\ m.self.rotation = 0
                      THEN ScaleAndMove(m.self, args) ELSE args,
           kwargs |-> [k \in DOMAIN kwargs \ {"no_trans"} |-> kwargs[k]]]]

\* the local transformation, if any, then the global one
TransformLocalGlobal(m, args, transformation_matrix) ==
  IF transformation_matrix = <<>> THEN TransformCoords(m, args, FALSE, <<>>)
  ELSE IF TransformCoords(m, args, FALSE, transformation_matrix).raised # "none"
  THEN TransformCoords(m, args, FALSE, transformation_matrix)
  ELSE TransformCoords(m, TransformCoords(m, args, FALSE, transformation_matrix).ret,
                       FALSE, <<>>)

\* create the item of the matrix path from the transformed coordinates
CreateTransformed(m, item_type, t, kwargs) ==
  IF t.raised # "none" THEN t ELSE TkCreate(m, item_type, t.ret, kwargs)

CreateLine(m, args, transformation_matrix, kwargs) ==
  IF transformation_matrix # <<>> /\ ~IsShape33(transformation_matrix)
  THEN Raise(m, "ValueError")
  ELSE IF m.self.rotation # 0 \/ transformation_matrix # <<>>
  THEN CreateTransformed(m, "line", TransformLocalGlobal(m, args, transformation_matrix),
                         ("no_trans" :> TRUE) @@ kwargs)
  ELSE TkCreate(m, "line", args, kwargs)

CreatePolygon(m, args, transformation_matrix, kwargs) ==
  IF transformation_matrix # <<>> /\ ~IsShape33(transformation_matrix)
  THEN Raise(m, "ValueError")
  ELSE IF m.self.rotation # 0 \/ transformation_matrix # <<>>
  THEN CreateTransformed(m, "polygon", TransformLocalGlobal(m, args, transformation_matrix),
                         ("no_trans" :> TRUE) @@ kwargs)
  ELSE TkCreate(m, "polygon", args, kwargs)

\* the four corners of the rectangle x1, y1, x2, y2
RectangleCorners(args) ==
  <<args[1], args[2], args[3], args[2], args[3], args[4], args[1], args[4]>>

\* create_rectangle that looks at the local matrix on the matrix path only
CreateRectangleLateCheck(m, args, transformation_matrix, kwargs) ==
  IF m.self.rotation = 0 /\ ~IsShape33(transformation_matrix)
  THEN TkCreate(m, "rectangle", args, kwargs)
  ELSE IF ~IsShape33(transformation_matrix) THEN Raise(m, "ValueError")
  ELSE CreateTransformed(m, "polygon",
                         TransformLocalGlobal(m, RectangleCorners(args), transformation_matrix),
                         ("no_trans" :> TRUE) @@ kwargs)

CreateRectangle(m, args, transformation_matrix, kwargs) ==
  IF transformation_matrix # <<>> /\ ~IsShape33(transformation_matrix)
  THEN Raise(m, "ValueError")
  ELSE IF m.self.rotation # 0 \/ transformation_matrix # <<>>
  THEN CreateTransformed(m, "polygon",
                         TransformLocalGlobal(m, RectangleCorners(args), transformation_matrix),
                         ("no_trans" :> TRUE) @@ kwargs)
  ELSE TkCreate(m, "rectangle", args, kwargs)

\* rad2deg of an angle in quarter turns
Rad2Deg(angle) == R(90 * angle)

\* Python's round(): to the nearest integer, a tie to the even one
RRound(a) ==
  IF RLt(RSub(a, R(RFloor(a))), Rat(1, 2)) THEN RFloor(a)
  ELSE IF RLt(Rat(1, 2), RSub(a, R(RFloor(a)))) THEN RFloor(a) + 1
  ELSE IF RFloor(a) % 2 = 0 THEN RFloor(a) ELSE RFloor(a) + 1

\* max(abs(size[0]), abs(size[1])) of the scaling vector
FontFactor(self) ==
  IF RLt(RAbs(VScale(self)[1]), RAbs(VScale(self)[2]))
  THEN RAbs(VScale(self)[2]) ELSE RAbs(VScale(self)[1])

\* the font of the item, a sequence of words, with its size scaled
ScaleFontSize(self, item, scale_font_size) ==
  IF scale_font_size /\ Len(item.kwargs.font) >= 2
  THEN [item EXCEPT !.kwargs.font[2] = RRound(RMul(R(@), FontFactor(self)))]
  ELSE item

\* the text item of the matrix path: created without no_trans
TextTransformed(m, t, scale_font_size) ==
  IF t.raised # "none" THEN t
  ELSE [t EXCEPT !.ret = ScaleFontSize(m.self, @, scale_font_size)]

\* kwargs: angle (None when not given) and font
CreateText(m, args, scale_font_size, transformation_matrix, kwargs) ==
  IF transformation_matrix # <<>> /\ ~IsShape33(transformation_matrix)
  THEN Raise(m, "ValueError")
  ELSE IF m.self.rotation # 0 \/ transformation_matrix # <<>>
  THEN TextTransformed(m,
         CreateTransformed(m, "text", TransformLocalGlobal(m, args, transformation_matrix),
                           [kwargs EXCEPT !.angle = RAdd(IF @ = None THEN Zero ELSE @,
                                                          Rad2Deg(m.self.rotation))]),
         scale_font_size)
  ELSE TkCreate(m, "text", args, kwargs)

(***************************************************************************)
(* Construction                                                            *)
(***************************************************************************)
NewMachine(self) ==
  [self |-> self, raised |-> "none", recomputes |-> <<>>, draw_log |-> <<>>, ret |-> <<>>]

\* TransformCanvas.__init__; a widget that is not mapped yet reports 1x1
Construct(scale_base, scale_ratio, zoom_factor, direction, origin, offset, rotation) ==
  LET blank == [is_init |-> FALSE, width |-> 0, height |-> 0, cb_draw |-> FALSE,
                winfo_width |-> 1, winfo_height |-> 1,
                scale_base |-> Zero, scale_ratio |-> None, zoom_factor |-> Zero,
                direction |-> "", origin |-> "", offset |-> <<Zero, Zero>>,
                rotation |-> 0, omit_draw |-> FALSE, zoom_value |-> Zero,
                transformation_matrix |-> <<>>, transformation_matrix_inv |-> <<>>,
                bindings |-> [Motion |-> <<>>, Configure |-> <<>>], n_commands |-> 0,
                funcid_motion |-> 0, funcid_configure |-> 0,
                rebinding_private_cbs |-> FALSE]
      m1 == SetScaleBase(NewMachine(blank), scale_base)
      m2 == SetScaleRatio(m1, scale_ratio)
      m3 == SetZoomFactor(m2, zoom_factor)
      m4 == SetDirection(m3, direction)
      m5 == SetOrigin(m4, origin)
      m6 == SetOffset(m5, offset)
      m7 == SetRotation(m6, rotation)
      m8 == [m7 EXCEPT !.self.omit_draw = FALSE, !.self.zoom_value = One,
                       !.self.is_init = TRUE]
  IN Update([RebindPrivateCbs(m8) EXCEPT !.ret = <<>>], TRUE)

(***************************************************************************)
(* Bound, and the values the caller and the host supply                    *)
(***************************************************************************)
\* number of calls and events in one behaviour (a call that maps a returned
\* point back is counted with the call that returned it)
MaxCalls == 3

ScaleBaseInputs == {Zero, R(2), R(-2)}
ScaleRatioInputs == {None, Zero, R(-1), R(2)}
ZoomFactorInputs == {Zero, R(-1), Rat(1, 2), R(2)}
ZoomInputs == {Zero, R(3), R(-1)}
DirectionInputs == Directions \cup {"n"}
OriginInputs == {"center", "nw", "s", "top"}
OffsetInputs == {<<R(3), R(-1)>>, <<R(1), None>>, <<None, R(2)>>}
RotationInputs == {1, 2, 3, 4}
Sizes == {<<100, 100>>, <<4, 2>>, <<3, 3>>}
Pointers == {<<1, 1>>, <<-1, 0>>}

M1 == << <<R(2), Zero, R(1)>>, <<Zero, R(2), Zero>>, <<Zero, Zero, One>> >>
M22 == << <<One, Zero>>, <<Zero, One>> >>
MatrixInputs == {[ndarray |-> TRUE, a |-> M1], [ndarray |-> TRUE, a |-> M22],
                 [ndarray |-> FALSE, a |-> Eye3]}
CellInputs == {<<1, 1, R(2)>>, <<2, 3, R(5)>>}
PointInputs == {<<R(0), R(0)>>, <<R(10), R(0)>>}
CoordsInputs == {<<R(0), R(0), R(10), R(0)>>, <<R(1), R(2), R(3)>>}
MatrixArgs == {<<>>, M1}

(***************************************************************************)
(* State: the canvas object, the call that has just returned (what it was, *)
(* the object before it, and what it did) and the number of calls made.    *)
(* The caller takes note of a call's outcome (Return) before it makes the  *)
(* next call.                                                              *)
(***************************************************************************)
VARIABLES cv, call, n_calls
vars == <<cv, call, n_calls>>

NoCall(self) ==
  [op |-> "idle", args |-> <<>>, pre |-> self, raised |-> "none", recomputes |-> <<>>,
   draw_log |-> <<>>, ret |-> <<>>]

\* TransformCanvas(master, zoom_factor=zf) followed by canvas.cb_draw = draw
Init ==
  /\ \E zf \in {z \in ZoomFactorInputs : RLt(Zero, z)} :
       cv = SetCbDraw(Construct(One, None, zf, "se", "center", <<Zero, Zero>>, 0), TRUE).self
  /\ call = NoCall(cv)
  /\ n_calls = 0

Done(op, args, m) ==
  /\ cv' = m.self
  /\ call' = [op |-> op, args |-> args, pre |-> cv, raised |-> m.raised,
              recomputes |-> m.recomputes, draw_log |-> m.draw_log, ret |-> m.ret]

Idle == call.op = "idle"

\* the caller is free to make a call
Ready == Idle /\ n_calls < MaxCalls /\ n_calls' = n_calls + 1

Begin == NewMachine(cv)

CallSetScaleBase == Ready /\ \E v \in ScaleBaseInputs : Done("scale_base", v, SetScaleBase(Begin, v))
CallSetScaleRatio == Ready /\ \E v \in ScaleRatioInputs : Done("scale_ratio", v, SetScaleRatio(Begin, v))
CallSetZoomFactor == Ready /\ \E v \in ZoomFactorInputs : Done("zoom_factor", v, SetZoomFactor(Begin, v))
CallSetZoom == Ready /\ \E v \in ZoomInputs : Done("zoom", v, SetZoom(Begin, v))
CallSetDirection == Ready /\ \E v \in DirectionInputs : Done("direction", v, SetDirection(Begin, v))
CallSetOrigin == Ready /\ \E v \in OriginInputs : Done("origin", v, SetOrigin(Begin, v))
CallSetOffset == Ready /\ \E v \in OffsetInputs : Done("offset", v, SetOffset(Begin, v))
CallSetRotation == Ready /\ \E v \in RotationInputs : Done("rotation", v, SetRotation(Begin, v))
CallSetTransformationMatrix ==
  Ready /\ \E v \in MatrixInputs : Done("transformation_matrix", v, SetTransformationMatrix(Begin, v))
CallCbEntTransMatrixReturn ==
  Ready /\ \E e \in CellInputs :
    Done("cb_ent_trans_matrix_return", e, CbEntTransMatrixReturn(Begin, e[1], e[2], e[3]))
CallSetCbDraw == Ready /\ \E v \in BOOLEAN : Done("cb_draw", v, SetCbDraw(Begin, v))
CallSetOmitDraw == Ready /\ \E v \in BOOLEAN : Done("omit_draw", v, SetOmitDraw(Begin, v))
CallUpdate == Ready /\ Done("update", <<>>, Update(Begin, TRUE))
EventConfigure == Ready /\ \E sz \in Sizes : Done("configure", sz, OnConfigure(Begin, sz))
CallZoomIn == Ready /\ \E p \in Pointers : Done("zoom_in", p, ZoomIn(Begin, p))
CallZoomOut == Ready /\ \E p \in Pointers : Done("zoom_out", p, ZoomOut(Begin, p))
CallTransformPoint ==
  Ready /\ \E p \in PointInputs, inv \in BOOLEAN :
    Done("transform_point", <<p[1], p[2], inv>>, TransformPoint(Begin, p[1], p[2], inv))
\* the caller maps the returned point back, with inv negated
CallTransformPointBack ==
  /\ call.op = "transform_point"
  /\ Done("transform_point_back", call.args,
          TransformPoint(Begin, call.ret[1], call.ret[2], ~call.args[3]))
  /\ UNCHANGED n_calls
CallTransformCoords ==
  Ready /\ \E c \in CoordsInputs, inv \in BOOLEAN, mat \in MatrixArgs :
    Done("transform_coords", <<c, inv, mat>>, TransformCoords(Begin, c, inv, mat))
CallTransformCoordsBack ==
  /\ call.op = "transform_coords" /\ call.raised = "none" /\ call.args[3] = <<>>
  /\ Done("transform_coords_back", call.args,
          TransformCoords(Begin, call.ret, ~call.args[2], <<>>))
  /\ UNCHANGED n_calls
Return == ~Idle /\ cv' = cv /\ call' = NoCall(cv) /\ UNCHANGED n_calls

\* parameter setters, zoom steps, resize events, update(), the two flags and
\* the coordinate mapper
NextParams ==
  \/ CallSetScaleBase \/ CallSetScaleRatio \/ CallSetZoomFactor \/ CallSetZoom
  \/ CallSetDirection \/ CallSetOrigin \/ CallSetOffset \/ CallSetRotation
  \/ CallSetCbDraw \/ CallSetOmitDraw \/ CallUpdate \/ EventConfigure
  \/ CallZoomIn \/ CallZoomOut
  \/ CallTransformPoint \/ CallTransformPointBack
  \/ CallTransformCoords \/ CallTransformCoordsBack
  \/ Return

SpecParams == Init /\ [][NextParams]_vars

\* ... and direct assignment of the matrix
Next ==
  \/ NextParams
  \/ CallSetTransformationMatrix \/ CallCbEntTransMatrixReturn

Spec == Init /\ [][Next]_vars

\* angles of up to two and a quarter turns either way
WideRotationInputs == (-(4 * Pi + 1)) .. (4 * Pi + 1)

CallSetRotationWide ==
  Ready /\ \E v \in WideRotationInputs : Done("rotation", v, SetRotation(Begin, v))

NextRotation == CallSetRotationWide \/ Return

\* the rotation setter alone, over the wide range of angles
SpecRotation == Init /\ [][NextRotation]_vars

(***************************************************************************)
(* Drawing arcs and ovals on a canvas whose rotation the caller sets       *)
(***************************************************************************)
ArcBoxes == {<<R(-200), R(-250), R(0), R(0)>>}
SegmentInputs == {3, 4}
StartInputs == {None, R(0), R(10), R(80), R(-90)}
ExtentInputs == {None, R(0), R(45), R(100), R(170), R(360), R(-720)}
StyleInputs == {"", "pieslice", "chord", "arc"}
LocalMatrixInputs == {<<>>, M1, M22}
OvalKwargs == {[start |-> None, extent |-> None, style |-> ""],
               [start |-> R(80), extent |-> R(45), style |-> "pieslice"]}

\* what float arithmetic makes of a remainder or quotient that is exact: of
\* start % step_size (zero, just above zero, just below step_size), of
\* n_segments / (2 pi) * extent (exact, or short of the integer), of
\* (start + extent) % step_size (zero or not)
Roundings ==
  {[start_rem |-> "zero", count |-> "exact", end_rem |-> "zero"],
   [start_rem |-> "above", count |-> "exact", end_rem |-> "positive"],
   [start_rem |-> "below", count |-> "short", end_rem |-> "positive"],
   [start_rem |-> "zero", count |-> "short", end_rem |-> "zero"]}

CallCreateArc ==
  Ready /\ \E b \in ArcBoxes, n \in SegmentInputs, t \in LocalMatrixInputs,
              s \in StartInputs, e \in ExtentInputs, st \in StyleInputs, fp \in Roundings :
    Done("create_arc", <<b, n, t, [start |-> s, extent |-> e, style |-> st], fp>>,
         CreateArc(Begin, b, n, t, [start |-> s, extent |-> e, style |-> st], fp))

CallCreateOval ==
  Ready /\ \E b \in ArcBoxes, n \in SegmentInputs, t \in LocalMatrixInputs,
              kw \in OvalKwargs, fp \in Roundings :
    Done("create_oval", <<b, n, t, kw, fp>>, CreateOval(Begin, b, n, t, kw, fp))

\* inputs of the other create_* methods
LineInputs == CoordsInputs \cup {<<R(1), R(2), R(3), R(4), R(5), R(6)>>}
RectangleInputs == {<<R(0), R(0), R(10), R(5)>>, <<R(-2), R(3), R(4), R(-1)>>}
LineKwargs == {[fill |-> "red"]}
TextKwargs == {[angle |-> a, font |-> f] :
                 a \in {None, R(30)}, f \in {<<"TkDefaultFont">>, <<"Helvetica", 10>>}}

CallCreateLine ==
  Ready /\ \E c \in LineInputs, t \in LocalMatrixInputs, kw \in LineKwargs :
    Done("create_line", <<c, t, kw>>, CreateLine(Begin, c, t, kw))

CallCreatePolygon ==
  Ready /\ \E c \in LineInputs, t \in LocalMatrixInputs, kw \in LineKwargs :
    Done("create_polygon", <<c, t, kw>>, CreatePolygon(Begin, c, t, kw))

CallCreateRectangle ==
  Ready /\ \E c \in RectangleInputs, t \in LocalMatrixInputs, kw \in LineKwargs :
    Done("create_rectangle", <<c, t, kw>>, CreateRectangle(Begin, c, t, kw))

CallCreateText ==
  Ready /\ \E p \in PointInputs, t \in LocalMatrixInputs, sfs \in BOOLEAN, kw \in TextKwargs :
    Done("create_text", <<p, t, kw, sfs>>, CreateText(Begin, p, sfs, t, kw))

\* every create_* method, at every rotation
NextArc ==
  \/ CallSetRotation \/ CallCreateArc \/ CallCreateOval
  \/ CallCreateLine \/ CallCreatePolygon \/ CallCreateRectangle \/ CallCreateText
  \/ Return

SpecArc == Init /\ [][NextArc]_vars

\* the create_* methods other than arcs, on a canvas that is resized, panned,
\* zoomed and rotated and whose matrix is assigned
NextItems ==
  \/ EventConfigure \/ CallSetOffset \/ CallSetZoom \/ CallSetRotation
  \/ CallSetTransformationMatrix
  \/ CallCreateLine \/ CallCreatePolygon \/ CallCreateRectangle \/ CallCreateText
  \/ Return

SpecItems == Init /\ [][NextItems]_vars

(***************************************************************************)
(* Building a local matrix: Matrix() and a chain of its methods.  The call *)
(* record holds the methods chained so far and the matrix they returned.   *)
(***************************************************************************)
\* number of methods chained on one Matrix()
MaxChain == 2

MatrixSteps ==
  {[op |-> "translate", x |-> R(5), y |-> R(7)],
   [op |-> "translate", x |-> R(-25), y |-> R(-15)],
   [op |-> "scale", x |-> R(5), y |-> R(2), origin |-> <<>>],
   [op |-> "scale", x |-> R(5), y |-> R(5), origin |-> <<R(25), R(15)>>],
   [op |-> "rotate", angle |-> Pi, origin |-> <<>>],
   [op |-> "rotate", angle |-> 1, origin |-> <<R(25), R(15)>>],
   [op |-> "skew", angle_x |-> 45, angle_y |-> 0],
   [op |-> "skew", angle_x |-> 0, angle_y |-> -45]}

\* one method called on the matrix self
MatrixApply(self, s) ==
  CASE s.op = "translate" -> MatrixTranslate(self, s.x, s.y)
    [] s.op = "scale" -> MatrixScaleAbout(self, s.x, s.y, s.origin)
    [] s.op = "rotate" -> MatrixRotate(self, s.angle, s.origin)
    [] s.op = "skew" -> MatrixSkew(self, s.angle_x, s.angle_y)

CallMatrix == Ready /\ Done("Matrix", <<>>, [Begin EXCEPT !.ret = MatrixNew])

CallMatrixMethod ==
  /\ call.op = "Matrix" /\ Len(call.args) < MaxChain
  /\ \E s \in MatrixSteps :
       Done("Matrix", Append(call.args, s), [Begin EXCEPT !.ret = MatrixApply(call.ret, s)])
  /\ UNCHANGED n_calls

NextMatrix == CallMatrix \/ CallMatrixMethod \/ Return

SpecMatrix == Init /\ [][NextMatrix]_vars

(***************************************************************************)
(* Panning with the demo's pan step.                                       *)
(***************************************************************************)
MoveDirs == {"LEFT", "RIGHT", "UP", "DOWN"}

\* the direction argument: a MoveDir, or the default None
MoveInputs == MoveDirs \cup {"None"}

OppositeDir(direction) ==
  CASE direction = "LEFT" -> "RIGHT" [] direction = "RIGHT" -> "LEFT"
    [] direction = "UP" -> "DOWN" [] direction = "DOWN" -> "UP"

CallDoMove == Ready /\ \E d \in MoveInputs : Done("do_move", d, DoMove(Begin, d))

\* the step in the opposite direction follows at once; the offset before the
\* first step is noted
CallDoMoveBack ==
  /\ call.op = "do_move" /\ call.raised = "none"
  /\ Done("do_move_back", <<call.args, call.pre.offset>>,
          DoMove(Begin, OppositeDir(call.args)))
  /\ UNCHANGED n_calls

NextPan ==
  EventConfigure \/ CallSetOffset \/ CallSetRotation \/ CallDoMove \/ CallDoMoveBack \/ Return

SpecPan == Init /\ [][NextPan]_vars

(***************************************************************************)
(* Binding calls of the application, and the events tk delivers.           *)
(***************************************************************************)
Sequences == {"Motion", "Configure"}

\* the funcids the application holds for a sequence: those bind() returned to it
UserFuncids(self, sequence) ==
  {self.bindings[sequence][i] : i \in 1..Len(self.bindings[sequence])}
    \ {self.funcid_motion, self.funcid_configure}

CallBind ==
  Ready /\ \E s \in Sequences, add \in BOOLEAN : Done("bind", <<s, add>>, Bind(Begin, s, add))

\* funcid 0: unbind(sequence) without a funcid
CallUnbind ==
  Ready /\ \E s \in Sequences : \E f \in {0} \cup UserFuncids(cv, s) :
    Done("unbind", <<s, f>>, Unbind(Begin, s, f))

CallBindClass == Ready /\ \E s \in Sequences : Done("bind_class", <<s>>, BindClass(Begin))

CallUnbindAll == Ready /\ \E s \in Sequences : Done("unbind_all", <<s>>, UnbindAll(Begin))

CallUnbindClass == Ready /\ \E s \in Sequences : Done("unbind_class", <<s>>, UnbindClass(Begin))

EventMotion == Ready /\ \E p \in Pointers : Done("motion", p, OnMotion(Begin, p))

NextBind ==
  \/ CallBind \/ CallUnbind \/ CallBindClass \/ CallUnbindAll \/ CallUnbindClass
  \/ EventConfigure \/ EventMotion \/ Return

SpecBind == Init /\ [][NextBind]_vars

(***************************************************************************)
(* Properties                                                              *)
(***************************************************************************)
ParamSetterOps ==
  {"scale_base", "scale_ratio", "zoom", "zoom_factor", "direction", "origin", "offset",
   "rotation"}
ZoomOps == {"zoom_in", "zoom_out"}
Succeeded == call.raised = "none"

\* the first two components of mat . (p, 1)
Maps(mat, p) == LET q == MatVec(mat, p) IN <<q[1], q[2]>>

\* T(origin_vector + offset) . R(-rotation) . S(scale_base * ratio_effective * zoom *
\* direction_vector), written out, for the parameters of self and the size the
\* widget has now
Composed(self) ==
  LET now == [self EXCEPT !.width = self.winfo_width, !.height = self.winfo_height]
      o == GetOriginVector(now, self.origin)
      d == GetDirectionVector(self.direction)
      k == RMul(RMul(self.scale_base, CalcScaleRatioEffective(now)), self.zoom_value)
      sx == RMul(k, d[1])
      sy == RMul(k, d[2])
      c == Cos(-self.rotation)
      sn == Sin(-self.rotation)
  IN << <<RMul(c, sx), RNeg(RMul(sn, sy)), RAdd(o[1], self.offset[1])>>,
        <<RMul(sn, sx), RMul(c, sy), RAdd(o[2], self.offset[2])>>,
        <<Zero, Zero, One>> >>

\* viewport 100x100, origin CENTER, offset (0,0), scale_base 1, zoom 1, direction SE,
\* rotation 0 (and no scale_ratio)
Scenario(self) ==
  /\ self.winfo_width = 100 /\ self.winfo_height = 100
  /\ self.origin = "center" /\ self.offset = <<Zero, Zero>>
  /\ self.scale_base = One /\ self.scale_ratio = None /\ self.zoom_value = One
  /\ self.direction = "se" /\ self.rotation = 0

\* C1: when a successful parameter setter, a zoom step or a resize event has
\* returned, whether or not omit_draw is set, transformation_matrix is
\* T(origin_vector + offset) . R(-rotation) . S(scale_base * ratio_effective * zoom *
\* direction_vector) of the current parameters and viewport size; in the 100x100
\* scenario it maps (0,0) to (50,50) and (10,0) to (60,50).
C1_MatrixFollowsParameters ==
  (call.op \in ParamSetterOps \cup ZoomOps \cup {"configure"} /\ Succeeded) =>
     /\ cv.transformation_matrix = Composed(cv)
     /\ Scenario(cv) =>
          /\ Maps(cv.transformation_matrix, <<R(0), R(0)>>) = <<R(50), R(50)>>
          /\ Maps(cv.transformation_matrix, <<R(10), R(0)>>) = <<R(60), R(50)>>

\* a setter has returned while omit_draw was set, in the 100x100 scenario
C1_Witness ==
  /\ call.op = "rotation" /\ Succeeded /\ call.pre.omit_draw /\ cv.omit_draw
  /\ Scenario(cv)
  /\ Maps(cv.transformation_matrix, <<R(10), R(0)>>) = <<R(60), R(50)>>

\* C2: after any sequence of parameter setters, zoom steps and resize events the
\* cached inverse is the inverse of the forward matrix (their products are the
\* identity), the forward matrix is the one of the current parameters, and every
\* recomputation of the forward matrix left the pair in that relation.
C2_InverseRecomputedWithMatrix ==
  /\ MatMul(cv.transformation_matrix, cv.transformation_matrix_inv) = Eye3
  /\ MatMul(cv.transformation_matrix_inv, cv.transformation_matrix) = Eye3
  /\ cv.transformation_matrix = Composed(cv)
  /\ \A i \in 1..Len(call.recomputes) :
       MatMul(call.recomputes[i].transformation_matrix,
              call.recomputes[i].transformation_matrix_inv) = Eye3

\* a zoom step on a rotated canvas has recomputed both matrices
C2_Witness ==
  /\ call.op = "zoom_out" /\ Len(call.recomputes) = 3 /\ cv.rotation = 1
  /\ cv.transformation_matrix # call.pre.transformation_matrix
  /\ cv.transformation_matrix_inv # call.pre.transformation_matrix_inv

\* C3: transform_point with inv=False applies the forward matrix (custom space to
\* pixel space), with inv=True the inverse matrix.
C3_TransformPointDirection ==
  call.op = "transform_point" =>
    call.ret = Maps(IF call.args[3] THEN cv.transformation_matrix_inv
                    ELSE cv.transformation_matrix,
                    <<call.args[1], call.args[2]>>)

\* C4: transform_coords on 2k numbers returns 2k numbers, pair i being m applied to
\* (x_i, y_i, 1), where m is the matrix argument when one is given and otherwise the
\* forward matrix for inv=False and the inverse matrix for inv=True.
C4_TransformCoords ==
  (call.op = "transform_coords" /\ Len(call.args[1]) % 2 = 0) =>
    LET coords == call.args[1]
        mat == IF call.args[3] # <<>> THEN call.args[3]
               ELSE IF call.args[2] THEN cv.transformation_matrix_inv
               ELSE cv.transformation_matrix
    IN /\ Succeeded
       /\ Len(call.ret) = Len(coords)
       /\ \A i \in 1..(Len(coords) \div 2) :
            <<call.ret[2 * i - 1], call.ret[2 * i]>>
              = Maps(mat, <<coords[2 * i - 1], coords[2 * i]>>)

\* two pairs have been mapped by the inverse matrix of a resized canvas
C4_Witness ==
  /\ call.op = "transform_coords" /\ call.args[2] /\ call.args[3] = <<>>
  /\ Len(call.ret) = 4 /\ call.ret # call.args[1]
  /\ cv.winfo_width = 4

\* C5: in every state reached through parameter setters, zoom steps and resize
\* events, mapping a point with transform_point and the result with inv negated
\* returns the point, in both orders; the same for transform_coords.
C5_RoundTrip ==
  /\ call.op = "transform_point_back" => call.ret = <<call.args[1], call.args[2]>>
  /\ call.op = "transform_coords_back" => call.ret = call.args[1]

\* a point went through a rotated, rescaled canvas and came back
C5_Witness ==
  /\ call.op = "transform_point_back" /\ call.args[3]
  /\ cv.rotation = 1 /\ cv.scale_base = R(-2)
  /\ call.ret = <<call.args[1], call.args[2]>>
  /\ call.ret # <<Zero, Zero>>

\* C6: when an assignment of a 3x3 matrix to transformation_matrix has returned
\* (directly, or from the demo's entry field, which edits the returned array in
\* place), transformation_matrix_inv is the inverse of the assigned matrix.
C6_AssignedMatrixInverted ==
  (call.op \in {"transformation_matrix", "cb_ent_trans_matrix_return"} /\ Succeeded) =>
    /\ MatMul(cv.transformation_matrix, cv.transformation_matrix_inv) = Eye3
    /\ MatMul(cv.transformation_matrix_inv, cv.transformation_matrix) = Eye3

\* C7, as claimed: with omit_draw set a parameter setter does not recompute the
\* matrix, and a zoom step recomputes it exactly once, after both zoom and offset
\* have been written.
C7_RecomputeDeferred ==
  /\ (call.op \in ParamSetterOps /\ call.pre.omit_draw) => call.recomputes = <<>>
  /\ call.op \in ZoomOps =>
       /\ Len(call.recomputes) = 1
       /\ call.recomputes[1].zoom_value = cv.zoom_value
       /\ call.recomputes[1].offset = cv.offset

\* C7, amended: omit_draw suspends the draw callback only.  Every successful
\* parameter setter recomputes the matrix once before it returns, also with
\* omit_draw set, and then does not draw; the omit_draw setter recomputes
\* nothing; a zoom step that completes recomputes three times: between the two
\* writes (zoom written, offset not yet), after the offset write and in its
\* final update().
C7_RecomputeOnEveryWrite ==
  /\ (call.op \in ParamSetterOps /\ Succeeded) =>
       /\ Len(call.recomputes) = 1
       /\ call.recomputes[1] = cv
       /\ call.pre.omit_draw => call.draw_log = <<>>
  /\ call.op = "omit_draw" =>
       /\ call.recomputes = <<>> /\ call.draw_log = <<>>
       /\ cv.transformation_matrix = call.pre.transformation_matrix
       /\ cv.transformation_matrix_inv = call.pre.transformation_matrix_inv
  /\ (call.op \in ZoomOps /\ Succeeded) =>
       /\ Len(call.recomputes) = 3
       /\ call.recomputes[1].zoom_value = cv.zoom_value
       /\ call.recomputes[1].offset = call.pre.offset
       /\ call.recomputes[2].zoom_value = cv.zoom_value
       /\ call.recomputes[2].offset = cv.offset
       /\ call.recomputes[3].transformation_matrix = cv.transformation_matrix

\* a zoom step that moved the offset, begun with omit_draw set
C7_Witness ==
  /\ call.op = "zoom_in" /\ call.pre.omit_draw
  /\ Len(call.recomputes) = 3
  /\ call.recomputes[1].offset # call.recomputes[2].offset

\* C8: once the caller has set omit_draw, no operation invokes the draw callback
\* until the caller resets it, and only the omit_draw setter changes omit_draw.
C8_OmitDrawRespected ==
  /\ (call.pre.omit_draw /\ call.op # "omit_draw") => call.draw_log = <<>>
  /\ call.op # "omit_draw" => cv.omit_draw = call.pre.omit_draw

InvalidCall ==
  \/ call.op = "scale_base" /\ call.args = Zero
  \/ call.op = "zoom" /\ call.args = Zero
  \/ call.op = "zoom_factor" /\ RLe(call.args, Zero)
  \/ call.op = "scale_ratio" /\ call.args # None /\ RLe(call.args, Zero)
  \/ call.op = "direction" /\ call.args \notin Directions
  \/ call.op = "origin" /\ call.args \notin Origins
  \/ call.op = "transformation_matrix" /\ ~(call.args.ndarray /\ IsShape33(call.args.a))

\* C9: a validating setter given an invalid value (scale_base 0, zoom 0,
\* zoom_factor <= 0, scale_ratio <= 0, an unknown direction or origin, a
\* transformation_matrix that is no 3x3 array) raises; every parameter and both
\* matrices are as before the call and the draw callback has not run.
C9_InvalidValueRejected ==
  InvalidCall =>
    /\ call.raised = "ValueError"
    /\ cv = call.pre
    /\ call.draw_log = <<>>
    /\ call.recomputes = <<>>

\* a setter has rejected its value on a canvas that would have drawn
C9_Witness ==
  /\ call.op = "zoom_factor" /\ call.raised = "ValueError"
  /\ cv.cb_draw /\ ~cv.omit_draw /\ cv.rotation = 1
  /\ cv = call.pre

\* C10: in every reachable state scale_base # 0, zoom # 0, zoom_factor > 0,
\* scale_ratio is None or > 0, direction is one of NE/SE/SW/NW and origin is one
\* of the nine tokens.
C10_ParameterInvariants ==
  /\ cv.scale_base # Zero
  /\ cv.zoom_value # Zero
  /\ RLt(Zero, cv.zoom_factor)
  /\ cv.scale_ratio = None \/ RLt(Zero, cv.scale_ratio)
  /\ cv.direction \in Directions
  /\ cv.origin \in Origins

\* a zoom step has taken zoom below 1 after a setter rejected a value
C10_Witness ==
  /\ call.op \in ZoomOps /\ Succeeded
  /\ cv.zoom_value[2] > 1
  /\ cv.scale_ratio = R(2)
  /\ C10_ParameterInvariants

\* C11 (as claimed): scale_base set to a negative value, or zoom set to a value
\* <= 0, raises and leaves the object as it was.
C11_NegativeRejected ==
  (\/ call.op = "scale_base" /\ RLt(call.args, Zero)
   \/ call.op = "zoom" /\ RLe(call.args, Zero)) =>
    call.raised = "ValueError" /\ cv = call.pre

\* C11: the scale_base and zoom setters refuse exactly the value 0 (the object
\* is then as it was); every other value, a negative one included, is stored
\* and the matrix is recomputed with it.
C11_OnlyZeroRejected ==
  call.op \in {"scale_base", "zoom"} =>
    IF call.args = Zero
    THEN call.raised = "ValueError" /\ cv = call.pre /\ call.recomputes = <<>>
    ELSE /\ Succeeded
         /\ call.op = "scale_base" => cv.scale_base = call.args
         /\ call.op = "zoom" => cv.zoom_value = call.args
         /\ Len(call.recomputes) = 1
         /\ cv.transformation_matrix = Composed(cv)

\* a negative zoom has been stored and mirrors the scene
C11_Witness ==
  /\ call.op = "zoom" /\ call.args = R(-1) /\ Succeeded
  /\ cv.zoom_value = R(-1)
  /\ RLt(cv.transformation_matrix[1][1], Zero)

\* C12: transform_coords given a coordinate list of odd length raises, with or
\* without a matrix argument and for both values of inv; it returns nothing,
\* and every parameter and both matrices are as before the call.
C12_OddLengthRejected ==
  (call.op = "transform_coords" /\ Len(call.args[1]) % 2 = 1) =>
    /\ call.raised = "ValueError"
    /\ call.ret = <<>>
    /\ cv = call.pre
    /\ call.recomputes = <<>> /\ call.draw_log = <<>>

\* [1, 2, 3] has been refused with a matrix argument and inv set
C12_Witness ==
  /\ call.op = "transform_coords"
  /\ call.args = << <<R(1), R(2), R(3)>>, TRUE, M1 >>
  /\ call.raised = "ValueError"
  /\ cv.rotation # 0

\* the angles congruent to t modulo a full turn
Turns(t) == {t + 2 * Pi * k : k \in -3 .. 3}

\* C13: setting rotation to t + 2*pi*k stores what setting it to t stores, the
\* stored value r is the one angle congruent to t with -pi < r <= pi (pi and
\* -pi are both stored as pi), and setting rotation to the stored value
\* leaves it as it is.
C13_RotationNormalized ==
  call.op = "rotation" =>
    /\ Succeeded
    /\ -Pi < cv.rotation /\ cv.rotation <= Pi
    /\ (cv.rotation - call.args) % (2 * Pi) = 0
    /\ \A u \in Turns(call.args) :
         SetRotation(NewMachine(call.pre), u).self.rotation = cv.rotation
    /\ SetRotation(NewMachine(cv), cv.rotation).self = cv
    /\ call.args \in {Pi, -Pi} => cv.rotation = Pi

\* minus a turn and a half has been stored as the half turn
C13_Witness ==
  /\ call.op = "rotation" /\ call.args = -3 * Pi
  /\ cv.rotation = Pi /\ call.pre.rotation = -1

\* the pixel a zoom step holds fixed: the pointer inside the viewport, else the
\* viewport centre (width/2, height/2)
Anchor(self, ptr) ==
  IF 0 <= ptr[1] /\ ptr[1] < self.width /\ 0 <= ptr[2] /\ ptr[2] < self.height
  THEN <<R(ptr[1]), R(ptr[2])>>
  ELSE <<Rat(self.width, 2), Rat(self.height, 2)>>

\* C14: after zoom_in or zoom_out the inverse matrix assigns to the anchor
\* pixel the logical point it assigned to it before the step.
C14_ZoomAnchored ==
  (call.op \in ZoomOps /\ Succeeded) =>
    Maps(cv.transformation_matrix_inv, Anchor(call.pre, call.args))
      = Maps(call.pre.transformation_matrix_inv, Anchor(call.pre, call.args))

\* a zoom step about a pointer inside a rotated, resized viewport has moved
\* the offset
C14_Witness ==
  /\ call.op = "zoom_out" /\ Succeeded
  /\ call.args = <<1, 1>> /\ call.pre.width > 1
  /\ cv.rotation # 0
  /\ cv.offset # call.pre.offset
  /\ cv.zoom_value # call.pre.zoom_value

\* the fallback to the viewport centre has been taken, with the offset moved
C14_WitnessCentre ==
  /\ call.op = "zoom_in" /\ Succeeded
  /\ call.args = <<-1, 0>>
  /\ cv.offset # call.pre.offset

\* C15: zoom_in multiplies zoom by zoom_factor and zoom_out by 1/zoom_factor,
\* also for a zoom_factor below 1; scale_base, scale_ratio, zoom_factor,
\* direction, origin and rotation are as before; the opposite step with the
\* same pointer gives back the zoom and the offset of before.
C15_ZoomStepRule ==
  (call.op \in ZoomOps /\ Succeeded) =>
    /\ call.op = "zoom_in" =>
         cv.zoom_value = RMul(call.pre.zoom_value, call.pre.zoom_factor)
    /\ call.op = "zoom_out" =>
         cv.zoom_value = RMul(call.pre.zoom_value, RDiv(One, call.pre.zoom_factor))
    /\ cv.scale_base = call.pre.scale_base /\ cv.scale_ratio = call.pre.scale_ratio
    /\ cv.zoom_factor = call.pre.zoom_factor /\ cv.direction = call.pre.direction
    /\ cv.origin = call.pre.origin /\ cv.rotation = call.pre.rotation
    /\ call.op = "zoom_in" =>
         /\ ZoomOut(NewMachine(cv), call.args).self.zoom_value = call.pre.zoom_value
         /\ ZoomOut(NewMachine(cv), call.args).self.offset = call.pre.offset
    /\ call.op = "zoom_out" =>
         /\ ZoomIn(NewMachine(cv), call.args).self.zoom_value = call.pre.zoom_value
         /\ ZoomIn(NewMachine(cv), call.args).self.offset = call.pre.offset

\* zoom_in with a zoom_factor of 1/2 has halved the zoom and moved the offset
C15_Witness ==
  /\ call.op = "zoom_in" /\ Succeeded
  /\ call.pre.zoom_factor = Rat(1, 2)
  /\ cv.zoom_value = RMul(call.pre.zoom_value, Rat(1, 2))
  /\ cv.offset # call.pre.offset

\* a create_arc call that took the tessellating path
Tessellated == call.op = "create_arc" /\ Succeeded /\ call.ret.type # "arc"

\* C16 (as claimed): of a partial arc the first perimeter angle emitted is
\* start and the last is start + extent, whatever start, extent and n are.
C16_ArcEndsExact ==
  (Tessellated /\ ArcExtent(call.args[4]) # R(2 * Pi)) =>
    /\ call.ret.angles # <<>>
    /\ call.ret.angles[1] = ArcStart(call.args[4])
    /\ call.ret.angles[Len(call.ret.angles)]
         = RAdd(ArcStart(call.args[4]), ArcExtent(call.args[4]))

\* degrees d as the model's angle
Deg(d) == RMul(RDiv(d, R(180)), R(Pi))

\* C17 (as claimed): create_arc takes start into [0, 360) degrees; an extent
\* that is a positive or negative multiple of 360 becomes one full turn, any
\* other extent, 0 included, its value modulo 360 (0 stays 0).
C17_AnglesNormalized ==
  (Tessellated /\ call.args[4].start # None /\ call.args[4].extent # None) =>
    /\ ArcStart(call.args[4]) = Deg(RMod(call.args[4].start, R(360)))
    /\ RLe(Zero, ArcStart(call.args[4])) /\ RLt(ArcStart(call.args[4]), R(2 * Pi))
    /\ ArcExtent(call.args[4]) =
         IF call.args[4].extent # Zero /\ RMod(call.args[4].extent, R(360)) = Zero
         THEN R(2 * Pi)
         ELSE Deg(RMod(call.args[4].extent, R(360)))
    /\ call.args[4].extent = Zero =>
         \A i \in 1 .. Len(call.ret.angles) : call.ret.angles[i] = ArcStart(call.args[4])

\* the n perimeter angles i * (2 pi / n), i = 0 .. n-1
OvalAngles(n) == [i \in 1 .. n |-> RMul(R(i - 1), ArcStepSize(n))]

\* C18 (as claimed): a tessellated arc with start 0 and an extent of a
\* positive or negative multiple of 360, whatever its style, is the item
\* create_oval emits for the same box, n and matrices: exactly n perimeter
\* points at the angles i * (2 pi / n) and no centre point; create_oval takes
\* no notice of the caller's start, extent and style.
C18_FullTurnIsOval ==
  /\ (/\ Tessellated
      /\ call.args[4].start = R(0)
      /\ call.args[4].extent \notin {None, Zero}
      /\ RMod(call.args[4].extent, R(360)) = Zero) =>
       /\ call.ret = CreateOval(NewMachine(call.pre), call.args[1], call.args[2],
                                call.args[3], call.args[4], call.args[5]).ret
       /\ call.ret.angles = OvalAngles(call.args[2])
       /\ call.ret.tail = <<>>
  /\ (call.op = "create_oval" /\ Succeeded /\ call.ret.type # "arc") =>
       /\ call.ret.angles = OvalAngles(call.args[2])
       /\ call.ret.tail = <<>>
       /\ \A kw \in OvalKwargs :
            call.ret = CreateOval(NewMachine(call.pre), call.args[1], call.args[2],
                                  call.args[3], kw, call.args[5]).ret

\* C19 (as claimed): any two consecutive perimeter angles emitted by
\* create_arc differ by at most one step 2 pi / n.
C19_GapFree ==
  Tessellated =>
    \A i \in 1 .. Len(call.ret.angles) - 1 :
      RLe(RSub(call.ret.angles[i + 1], call.ret.angles[i]), ArcStepSize(call.args[2]))

\* the item create_arc emits for the arguments of the last call, with style
\* in place of the style it was given
WithStyle(style) ==
  CreateArc(NewMachine(call.pre), call.args[1], call.args[2], call.args[3],
            [call.args[4] EXCEPT !.style = style], call.args[5]).ret

\* the centre of the bounding box, taken through the local matrix (if one is
\* given) and the matrix of the canvas
BoxCentre(self, box, local) ==
  Maps(self.transformation_matrix,
       IF local # <<>>
       THEN Maps(local, <<RDiv(RAdd(box[1], box[3]), R(2)), RDiv(RAdd(box[2], box[4]), R(2))>>)
       ELSE <<RDiv(RAdd(box[1], box[3]), R(2)), RDiv(RAdd(box[2], box[4]), R(2))>>)

\* C20: of a tessellated partial arc the PIESLICE item is the CHORD item with
\* one more point after the perimeter points, the transformed centre of the
\* bounding box; CHORD and ARC items have the perimeter points only; PIESLICE
\* and CHORD are polygons, ARC is a line.
C20_ArcStyles ==
  (Tessellated /\ ArcExtent(call.args[4]) # R(2 * Pi)) =>
    /\ WithStyle("pieslice").type = "polygon"
    /\ WithStyle("chord").type = "polygon"
    /\ WithStyle("arc").type = "line"
    /\ WithStyle("chord").tail = <<>> /\ WithStyle("arc").tail = <<>>
    /\ WithStyle("pieslice").tail = BoxCentre(call.pre, call.args[1], call.args[3])
    /\ [WithStyle("pieslice") EXCEPT !.tail = <<>>] = WithStyle("chord")
    /\ WithStyle("arc").angles = WithStyle("chord").angles
    /\ call.args[4].style # "" => call.ret = WithStyle(call.args[4].style)

\* a pie slice with a local matrix on a rotated canvas
C20_Witness ==
  /\ Tessellated /\ call.args[4].style = "pieslice"
  /\ call.args[4].extent = R(100) /\ call.args[4].start = R(10)
  /\ call.args[3] = M1 /\ call.pre.rotation = 1
  /\ Len(call.ret.angles) = 3
  /\ call.ret.tail = BoxCentre(call.pre, call.args[1], call.args[3])
  /\ call.ret.tail # <<R(-100), R(-125)>>

\* the elementary matrix of one builder method: T(x, y), S(x, y) and R(angle),
\* about the origin given, and K(angle_x, angle_y)
Elementary(s) == MatrixApply(Eye3, s)

\* C21 (as claimed): two methods chained on Matrix() give the matrix that
\* applies the first-called one first: the elementary matrix of the second
\* times that of the first.
C21_FirstCalledFirst ==
  (call.op = "Matrix" /\ Len(call.args) = 2) =>
    call.ret = MatMul(Elementary(call.args[2]), Elementary(call.args[1]))

\* C22 (as claimed): a text item that create_text has made at the point (x, y),
\* with the local matrix L or none, at any rotation, is anchored at M . L . (x, y),
\* M being the global forward matrix.
C22_TextAnchoredOnce ==
  (call.op = "create_text" /\ Succeeded) =>
    call.ret.coords =
      Maps(cv.transformation_matrix,
           IF call.args[2] # <<>> THEN Maps(call.args[2], call.args[1]) ELSE call.args[1])

CreateOps ==
  {"create_arc", "create_oval", "create_line", "create_polygon", "create_rectangle",
   "create_text"}

\* the local transformation matrix a create_* call was given, <<>> for none
LocalMatrix ==
  IF call.op \in {"create_arc", "create_oval"} THEN call.args[3] ELSE call.args[2]

\* C23: a create_arc, create_oval, create_line, create_polygon, create_rectangle
\* or create_text call that is given a local matrix whose shape is not 3x3
\* raises ValueError at any rotation, 0 included; it returns no item and the
\* canvas object is as it was before the call.
C23_BadShapeRejected ==
  (call.op \in CreateOps /\ LocalMatrix # <<>> /\ ~IsShape33(LocalMatrix)) =>
    (call.raised = "ValueError" /\ call.ret = <<>> /\ cv = call.pre)

C23_Witness ==
  /\ call.op = "create_rectangle" /\ LocalMatrix = M22 /\ cv.rotation = 0
  /\ call.raised = "ValueError"

C23_WitnessRotated ==
  /\ call.op = "create_text" /\ LocalMatrix = M22 /\ cv.rotation # 0
  /\ call.raised = "ValueError"

\* C24: an assignment to transformation_matrix, accepted or refused, leaves
\* scale_base, scale_ratio, zoom, zoom_factor, direction, origin, offset and
\* rotation as they were, and scaling_vector and translation_vector are still
\* the vectors they were before the assignment.
C24_MatrixAssignmentKeepsParameters ==
  (call.op \in {"transformation_matrix", "cb_ent_trans_matrix_return"}) =>
    /\ cv.scale_base = call.pre.scale_base /\ cv.scale_ratio = call.pre.scale_ratio
    /\ cv.zoom_value = call.pre.zoom_value /\ cv.zoom_factor = call.pre.zoom_factor
    /\ cv.direction = call.pre.direction /\ cv.origin = call.pre.origin
    /\ cv.offset = call.pre.offset /\ cv.rotation = call.pre.rotation
    /\ VScale(cv) = VScale(call.pre) /\ VTranslate(cv) = VTranslate(call.pre)

\* a matrix has been assigned to a canvas that was panned, zoomed or resized
C24_Witness ==
  /\ call.op = "transformation_matrix" /\ Succeeded
  /\ cv.transformation_matrix # call.pre.transformation_matrix
  /\ VTranslate(cv) # <<Zero, Zero>>

\* the pixel position the origin names in a viewport of the size of self: CENTER
\* (w/2, h/2), N (w/2, 0), S (w/2, h), W (0, h/2), E (w, h/2) and the corners
OriginPosition(self) ==
  <<IF self.origin \in {"nw", "w", "sw"} THEN Zero
    ELSE IF self.origin \in {"ne", "e", "se"} THEN R(self.width) ELSE Rat(self.width, 2),
    IF self.origin \in {"nw", "n", "ne"} THEN Zero
    ELSE IF self.origin \in {"sw", "s", "se"} THEN R(self.height) ELSE Rat(self.height, 2)>>

\* C25 (as claimed): after a resize to any width and height, odd ones included,
\* translation_vector is the pixel position of the origin, halves taken
\* exactly, plus offset, and with origin CENTER the origin vector is the
\* viewport centre a zoom step falls back to when the pointer is outside.
C25_OriginVectorExact ==
  (call.op = "configure" /\ Succeeded) =>
    /\ VTranslate(cv) = <<RAdd(OriginPosition(cv)[1], cv.offset[1]),
                          RAdd(OriginPosition(cv)[2], cv.offset[2])>>
    /\ cv.origin = "center" =>
         GetOriginVector(cv, "center") = ZoomPointer(cv, <<-1, -1>>)

\* C26 (as claimed): after scale_ratio has been set or the viewport resized,
\* calc_scale_ratio_effective is 1 when scale_ratio is None or equals the
\* viewport's width / height, and is strictly less than 1 otherwise.
C26_RatioAtMostOne ==
  (call.op \in {"scale_ratio", "configure"} /\ Succeeded) =>
    IF cv.scale_ratio = None \/ cv.scale_ratio = Rat(cv.width, cv.height)
    THEN CalcScaleRatioEffective(cv) = One
    ELSE RLt(CalcScaleRatioEffective(cv), One)

\* the offset a pan step adds: a tenth of the width to the left or right, a
\* tenth of the height up or down
PanDelta(self, direction) ==
  CASE direction = "LEFT" -> <<RNeg(Rat(self.width, 10)), Zero>>
    [] direction = "RIGHT" -> <<Rat(self.width, 10), Zero>>
    [] direction = "UP" -> <<Zero, RNeg(Rat(self.height, 10))>>
    [] direction = "DOWN" -> <<Zero, Rat(self.height, 10)>>

\* C27: a pan step LEFT, RIGHT, UP or DOWN changes offset.x by -width/10 or
\* +width/10, or offset.y by -height/10 or +height/10, and leaves the other
\* component and every other parameter as it was; the matrix is recomputed
\* from the new offset; the step in the opposite direction that follows
\* restores the offset.
C27_PanStep ==
  /\ (call.op = "do_move" /\ Succeeded) =>
       /\ cv.offset = <<RAdd(call.pre.offset[1], PanDelta(call.pre, call.args)[1]),
                        RAdd(call.pre.offset[2], PanDelta(call.pre, call.args)[2])>>
       /\ \A f \in DOMAIN cv \ {"offset", "transformation_matrix", "transformation_matrix_inv"} :
            cv[f] = call.pre[f]
       /\ Len(call.recomputes) = 1
       /\ cv.transformation_matrix = Composed(cv)
  /\ (call.op = "do_move_back" /\ Succeeded) => cv.offset = call.args[2]

\* a step up on a canvas that is wider than high, from a panned position
C27_Witness ==
  /\ call.op = "do_move" /\ call.args = "UP" /\ Succeeded
  /\ cv.width > cv.height /\ call.pre.offset # <<Zero, Zero>>

\* a step left has been undone by a step right
C27_WitnessBack ==
  /\ call.op = "do_move_back" /\ call.args[1] = "LEFT" /\ Succeeded
  /\ cv.width = 100 /\ cv.rotation # 0

BindingOps == {"bind", "unbind", "bind_class", "unbind_all", "unbind_class"}

\* C28 (as claimed): when a public binding call (bind with or without add,
\* unbind with or without a funcid, bind_class, unbind_all, unbind_class) on
\* <Motion> or <Configure> has returned, the private <Motion> and <Configure>
\* handlers are in the widget's binding scripts and the recursion guard is
\* False; a resize event that follows recomputes the matrix.
C28_PrivateHandlersKept ==
  /\ (call.op \in BindingOps) =>
       /\ PrivateBound(cv, "Motion") /\ PrivateBound(cv, "Configure")
       /\ ~cv.rebinding_private_cbs
  /\ (call.op = "configure") => Len(call.recomputes) = 1

\* C29: a zoom_in or zoom_out call made with a draw callback set and omit_draw
\* False invokes the callback exactly once, and the callback sees the object
\* as the call leaves it, zoom and offset both new: it does not run between
\* the write of zoom and the write of offset.
C29_ZoomDrawsOnce ==
  (call.op \in ZoomOps /\ call.pre.cb_draw /\ ~call.pre.omit_draw) =>
    /\ Len(call.draw_log) = 1
    /\ call.draw_log[1] = cv
    /\ cv.zoom_value # call.pre.zoom_value

\* a zoom step that moved the offset has drawn
C29_Witness ==
  /\ call.op = "zoom_out" /\ call.pre.cb_draw /\ ~call.pre.omit_draw
  /\ Len(call.draw_log) = 1 /\ cv.offset # call.pre.offset

PathOps == {"create_line", "create_polygon", "create_rectangle"}

\* the call of PathOps that has returned, made again on the canvas as it was
\* before the call, with the local matrix given
Recreated(transformation_matrix) ==
  CASE call.op = "create_line" ->
         CreateLine(NewMachine(call.pre), call.args[1], transformation_matrix, call.args[3])
    [] call.op = "create_polygon" ->
         CreatePolygon(NewMachine(call.pre), call.args[1], transformation_matrix, call.args[3])
    [] call.op = "create_rectangle" ->
         CreateRectangle(NewMachine(call.pre), call.args[1], transformation_matrix, call.args[3])

\* the device points of an item: the corners of a rectangle, the points of a
\* line or polygon
DevicePoints(item) ==
  IF item.type = "rectangle" THEN RectangleCorners(item.coords) ELSE item.coords

\* the points create_* was given: the corners for create_rectangle
InputPoints ==
  IF call.op = "create_rectangle" THEN RectangleCorners(call.args[1]) ELSE call.args[1]

\* C30 (as claimed): create_line, create_polygon and create_rectangle called
\* with rotation 0 and no local matrix make a native item (not a polygon for a
\* rectangle) whose device points are those of the item the same call makes
\* when it is given the identity as local matrix; on the matrix path the device
\* points are the input points mapped by the local matrix and then once by the
\* global forward matrix.
C30_PathsAgree ==
  /\ (call.op \in PathOps /\ Succeeded /\ call.pre.rotation = 0 /\ call.args[2] = <<>>) =>
       /\ call.ret.type = (IF call.op = "create_line" THEN "line"
                           ELSE IF call.op = "create_polygon" THEN "polygon" ELSE "rectangle")
       /\ call.ret.coords = ScaleAndMove(call.pre, call.args[1])
       /\ DevicePoints(call.ret) = DevicePoints(Recreated(Eye3).ret)
  /\ (call.op \in PathOps /\ Succeeded /\ (call.pre.rotation # 0 \/ call.args[2] # <<>>)) =>
       call.ret.coords =
         TransformPairs(cv.transformation_matrix,
                        IF call.args[2] # <<>> THEN TransformPairs(call.args[2], InputPoints)
                        ELSE InputPoints)

====
